---------------------------- MODULE Spec2Model ----------------------------
(***************************************************************************)
(* A model of the message-body extraction and categorization core of the   *)
(* Gmail utility, and of its reply flow:                                   *)
(*   - MailCategorizer (reader.py): remote classification with a keyword   *)
(*     heuristic as fallback;                                              *)
(*   - extract_plain_text_from_payload / _decode_body_data (utils.py);     *)
(*   - the menu loop and the reply flow (main.py) with GmailSender         *)
(*     (sender.py).                                                        *)
(* A Python str is a sequence of one-character strings, so that slicing,   *)
(* lower(), strip() and the `in` substring test are computed as the code   *)
(* computes them.                                                          *)
(***************************************************************************)
EXTENDS Integers, Sequences, FiniteSets, TLC

VARIABLES
    _chain,          \* MailCategorizer._chain: None or the prompt|llm|parser chain
    pc,              \* position of the classify invocation
    from_addr,       \* arguments of the current classify invocation
    to_addr,
    subject,
    body,
    api_key,         \* the environment's OPENAI_API_KEY
    dispatched,      \* the request handed to _chain.invoke, if any
    out,             \* what _chain.invoke did: returned a value, or raised
    label,           \* the value classify returned
    raised,          \* an exception left classify
    invokes,         \* calls of _chain.invoke within this invocation
    heuristic_runs,  \* calls of _heuristic within this invocation
    repeat,          \* this invocation has the arguments of the one before it
    heuristic_before,\* the label _heuristic gave the invocation before, kept while
                     \* this one has the same from_addr, subject and body
    payload,         \* argument of extract_plain_text_from_payload
    ext_pc,          \* position of the extraction
    txt,             \* the value extract_plain_text_from_payload returned
    visits,          \* calls of extract_plain_text_from_payload the extraction made
    mailbox,         \* the account's messages, by id, as the Gmail API returns them
    main_pc,         \* position of main: the input() or API response it waits for
    forced_to,       \* _reply_flow's forced_to; <<>> is None (only its truth is read)
    messages,        \* _reply_flow's messages
    msg,             \* the message picked by index
    suggestions,     \* s1, s2 of _choose_reply_text
    base,            \* base of _choose_reply_text
    reply_text,      \* reply_text of _reply_flow
    outbox,          \* the messages handed to users().messages().send, in order
    error            \* the exception that left main, if any

cat_vars == <<_chain, pc, from_addr, to_addr, subject, body, api_key,
              dispatched, out, label, raised, invokes, heuristic_runs, repeat,
              heuristic_before>>
ext_vars == <<payload, ext_pc, txt, visits>>
reply_vars == <<mailbox, main_pc, forced_to, messages, msg, suggestions, base,
                reply_text, outbox, error>>
vars == <<cat_vars, ext_vars, reply_vars>>

----------------------------------------------------------------------------
(* Bounds of the model *)

\* longest string over ShortAlphabet drawn as a body
MaxLen == 2
\* how far past the truncation limit the long bodies reach
MaxOver == 1
\* most parts of a container whose parts are drawn freely
MaxParts == 2
\* most containers wrapped around such a container
MaxWrap == 2
\* longest encoded data drawn freely over DataAlphabet
MaxDataLen == 4
\* most messages one listing returns
MaxMsgs == 2
\* most messages handed to the send endpoint in one run of main
MaxSent == 2

----------------------------------------------------------------------------
(* Python str operations *)

UpperAlpha == <<"A","B","C","D","E","F","G","H","I","J","K","L","M",
                "N","O","P","Q","R","S","T","U","V","W","X","Y","Z">>
LowerAlpha == <<"a","b","c","d","e","f","g","h","i","j","k","l","m",
                "n","o","p","q","r","s","t","u","v","w","x","y","z">>

Chars == {UpperAlpha[i] : i \in 1..26} \cup {LowerAlpha[i] : i \in 1..26}
         \cup {" ", "\n", "\t", ".", ":", "@", "(", ")"}

LowerMap == [c \in Chars |->
               IF \E i \in 1..26 : UpperAlpha[i] = c
               THEN LowerAlpha[CHOOSE i \in 1..26 : UpperAlpha[i] = c]
               ELSE c]

\* str.lower()
Lower(s) == [i \in 1..Len(s) |-> LowerMap[s[i]]]

Whitespace == {" ", "\n", "\t"}

RECURSIVE LStrip(_)
LStrip(s) == IF s # <<>> /\ Head(s) \in Whitespace THEN LStrip(Tail(s)) ELSE s

RECURSIVE RStrip(_)
RStrip(s) == IF s # <<>> /\ s[Len(s)] \in Whitespace
             THEN RStrip(SubSeq(s, 1, Len(s) - 1)) ELSE s

\* str.strip()
Strip(s) == RStrip(LStrip(s))

\* k in text
Contains(k, text) ==
    \E i \in 1..(Len(text) - Len(k) + 1) :
        \A j \in 1..Len(k) : text[i + j - 1] = k[j]

\* any(k in text for k in kws)
AnyIn(kws, text) == \E n \in 1..Len(kws) : Contains(kws[n], text)

----------------------------------------------------------------------------
(* _decode_body_data: URL-safe base64, then UTF-8 with errors="replace" *)

\* the standard alphabet; urlsafe_b64decode first translates - to + and _ to /
B64Alphabet ==
    <<"A","B","C","D","E","F","G","H","I","J","K","L","M",
      "N","O","P","Q","R","S","T","U","V","W","X","Y","Z",
      "a","b","c","d","e","f","g","h","i","j","k","l","m",
      "n","o","p","q","r","s","t","u","v","w","x","y","z",
      "0","1","2","3","4","5","6","7","8","9","+","/">>

UrlSafe(c) == IF c = "-" THEN "+" ELSE IF c = "_" THEN "/" ELSE c

IsB64(c) == \E n \in 1..64 : B64Alphabet[n] = UrlSafe(c)
B64Value(c) == (CHOOSE n \in 1..64 : B64Alphabet[n] = UrlSafe(c)) - 1

\* the decoding loop of b64decode(validate=False): characters outside the
\* alphabet are skipped, a padding that completes a quad ends the input, and
\* an unfinished quad at the end of the input is an error
RECURSIVE B64Loop(_, _, _, _, _, _)
B64Loop(data, i, quad_pos, leftchar, pads, bytes) ==
    IF i > Len(data)
    THEN [raised |-> quad_pos # 0, bytes |-> bytes]
    ELSE LET ch == data[i] IN
         IF ch = "="
         THEN IF quad_pos >= 2 /\ quad_pos + pads + 1 >= 4
              THEN [raised |-> FALSE, bytes |-> bytes]
              ELSE B64Loop(data, i + 1, quad_pos, leftchar,
                           IF quad_pos >= 2 THEN pads + 1 ELSE pads, bytes)
         ELSE IF ~IsB64(ch)
         THEN B64Loop(data, i + 1, quad_pos, leftchar, pads, bytes)
         ELSE LET v == B64Value(ch) IN
              CASE quad_pos = 0 ->
                       B64Loop(data, i + 1, 1, v, 0, bytes)
                [] quad_pos = 1 ->
                       B64Loop(data, i + 1, 2, v % 16, 0,
                               Append(bytes, leftchar * 4 + v \div 16))
                [] quad_pos = 2 ->
                       B64Loop(data, i + 1, 3, v % 4, 0,
                               Append(bytes, leftchar * 16 + v \div 4))
                [] quad_pos = 3 ->
                       B64Loop(data, i + 1, 0, 0, 0,
                               Append(bytes, leftchar * 64 + v))

\* base64.urlsafe_b64decode(data.encode("utf-8")): the bytes, or an exception
urlsafe_b64decode(data) == B64Loop(data, 1, 0, 0, 0, <<>>)

Replacement == 65533

IsCont(b) == b >= 128 /\ b <= 191

\* the range the second byte of a sequence led by b1 has to lie in
SecondOk(b1, b2) ==
    CASE b1 = 224 -> b2 >= 160 /\ b2 <= 191
      [] b1 = 237 -> b2 >= 128 /\ b2 <= 159
      [] b1 = 240 -> b2 >= 144 /\ b2 <= 191
      [] b1 = 244 -> b2 >= 128 /\ b2 <= 143
      [] OTHER -> IsCont(b2)

\* bytes.decode("utf-8", errors="replace"): the code points of the text
RECURSIVE Utf8Decode(_)
Utf8Decode(bs) ==
    IF bs = <<>> THEN <<>>
    ELSE LET b1 == bs[1]
             n == Len(bs)
             need == IF b1 < 128 THEN 1
                     ELSE IF b1 >= 194 /\ b1 <= 223 THEN 2
                     ELSE IF b1 >= 224 /\ b1 <= 239 THEN 3
                     ELSE IF b1 >= 240 /\ b1 <= 244 THEN 4
                     ELSE 0
             rest(k) == Utf8Decode(SubSeq(bs, k + 1, n))
         IN  IF need = 0 THEN <<Replacement>> \o rest(1)
             ELSE IF need = 1 THEN <<b1>> \o rest(1)
             ELSE IF n < 2 THEN <<Replacement>>
             ELSE IF ~SecondOk(b1, bs[2]) THEN <<Replacement>> \o rest(1)
             ELSE IF need = 2 THEN <<(b1 - 192) * 64 + (bs[2] - 128)>> \o rest(2)
             ELSE IF n < 3 THEN <<Replacement>>
             ELSE IF ~IsCont(bs[3]) THEN <<Replacement>> \o rest(2)
             ELSE IF need = 3
                  THEN <<(b1 - 224) * 4096 + (bs[2] - 128) * 64 + (bs[3] - 128)>>
                       \o rest(3)
             ELSE IF n < 4 THEN <<Replacement>>
             ELSE IF ~IsCont(bs[4]) THEN <<Replacement>> \o rest(3)
             ELSE <<(b1 - 240) * 262144 + (bs[2] - 128) * 4096
                    + (bs[3] - 128) * 64 + (bs[4] - 128)>> \o rest(4)

\* a placeholder returned for data that does not decode
_decode_body_data_placeholder(data) ==
    LET decoded == urlsafe_b64decode(data)
    IN  IF decoded.raised THEN <<Replacement>> ELSE Utf8Decode(decoded.bytes)

\* try: return base64.urlsafe_b64decode(...).decode("utf-8", errors="replace")
\* except Exception: return ""
_decode_body_data(data) ==
    LET decoded == urlsafe_b64decode(data)
    IN  IF decoded.raised THEN <<>> ELSE Utf8Decode(decoded.bytes)

----------------------------------------------------------------------------
(* extract_plain_text_from_payload *)

\* A payload is a dict: a function whose domain holds the keys it has. A key
\* holding None is modelled as a key that is absent: the code reads every key
\* through .get and `or`, which treat the two alike.
EmptyDict == [k \in {} |-> k]

\* d.get(k, default)
Get(d, k, default) == IF k \in DOMAIN d THEN d[k] ELSE default

\* bool(d) of a dict or None
Truthy(d) == DOMAIN d # {}

RECURSIVE extract_plain_text_from_payload(_)
RECURSIVE FirstNonEmpty(_)

\* mime.startswith("text/") in place of mime == "text/plain"
IsPlainText_any_text(mime) == mime \in {"text/plain", "text/html"}

\* mime == "text/plain"
IsPlainText(mime) == mime = "text/plain"

\* the parts walked from the last to the first
LastNonEmpty(parts) ==
    IF parts = <<>> THEN <<>>
    ELSE LET part_txt == extract_plain_text_from_payload(parts[Len(parts)])
         IN  IF part_txt # <<>> THEN part_txt
             ELSE FirstNonEmpty(SubSeq(parts, 1, Len(parts) - 1))

\* only the parts themselves looked at, not the parts below them
FirstNonEmpty_shallow(parts) ==
    IF parts = <<>> THEN <<>>
    ELSE LET part == Head(parts)
             data == Get(Get(part, "body", EmptyDict), "data", <<>>)
             part_txt == IF IsPlainText(Get(part, "mimeType", "")) /\ data # <<>>
                         THEN _decode_body_data(data) ELSE <<>>
         IN  IF part_txt # <<>> THEN part_txt ELSE FirstNonEmpty(Tail(parts))

\* for part in parts: txt = extract(part); if txt: return txt
\* return ""
FirstNonEmpty(parts) ==
    IF parts = <<>> THEN <<>>
    ELSE LET part_txt == extract_plain_text_from_payload(Head(parts))
         IN  IF part_txt # <<>> THEN part_txt ELSE FirstNonEmpty(Tail(parts))

\* the decoding tried first and the parts walked when it comes out empty
extract_falls_through(p) ==
    IF ~Truthy(p) THEN <<>>
    ELSE LET mime == Get(p, "mimeType", "")
             body_ == Get(p, "body", EmptyDict)
             data == Get(body_, "data", <<>>)
             own == IF IsPlainText(mime) /\ data # <<>>
                    THEN _decode_body_data(data) ELSE <<>>
         IN  IF own # <<>> THEN own ELSE FirstNonEmpty(Get(p, "parts", <<>>))

extract_plain_text_from_payload(p) ==
    IF ~Truthy(p) THEN <<>>
    ELSE LET mime == Get(p, "mimeType", "")
             body_ == Get(p, "body", EmptyDict)
             data == Get(body_, "data", <<>>)
         IN  IF IsPlainText(mime) /\ data # <<>>
             THEN _decode_body_data(data)
             ELSE FirstNonEmpty(Get(p, "parts", <<>>))

RECURSIVE Calls(_)
RECURSIVE CallsIn(_)

\* the calls of extract_plain_text_from_payload made for the parts: the loop
\* stops at the first part whose text is non-empty
CallsIn(parts) ==
    IF parts = <<>> THEN 0
    ELSE Calls(Head(parts))
         + (IF extract_plain_text_from_payload(Head(parts)) # <<>> THEN 0
            ELSE CallsIn(Tail(parts)))

\* the calls of extract_plain_text_from_payload made for p, its own included
Calls(p) ==
    IF ~Truthy(p) THEN 1
    ELSE LET mime == Get(p, "mimeType", "")
             body_ == Get(p, "body", EmptyDict)
             data == Get(body_, "data", <<>>)
         IN  IF IsPlainText(mime) /\ data # <<>>
             THEN 1
             ELSE 1 + CallsIn(Get(p, "parts", <<>>))

----------------------------------------------------------------------------
(* MailCategorizer *)

None == "None"
Chain == "chain"

L_work == <<"w","o","r","k">>
L_personal == <<"p","e","r","s","o","n","a","l">>
L_spam == <<"s","p","a","m">>
L_urgent == <<"u","r","g","e","n","t">>

ALLOWED == {L_work, L_personal, L_spam, L_urgent}

urgent_kw == << <<"u","r","g","e","n","t">>,
                <<"a","s","a","p">>,
                <<"i","m","m","e","d","i","a","t","e","l","y">>,
                <<"d","e","a","d","l","i","n","e">>,
                <<"o","v","e","r","d","u","e">>,
                <<"a","c","t","i","o","n"," ","r","e","q","u","i","r","e","d">> >>

spam_kw == << <<"u","n","s","u","b","s","c","r","i","b","e">>,
              <<"w","i","n","n","e","r">>,
              <<"p","r","i","z","e">>,
              <<"l","o","t","t","e","r","y">>,
              <<"f","r","e","e">>,
              <<"b","u","y"," ","n","o","w">>,
              <<"l","i","m","i","t","e","d"," ","o","f","f","e","r">>,
              <<"c","l","i","c","k"," ","h","e","r","e">> >>

work_kw == << <<"m","e","e","t","i","n","g">>,
              <<"i","n","v","o","i","c","e">>,
              <<"p","r","o","j","e","c","t">>,
              <<"d","e","a","d","l","i","n","e">>,
              <<"c","o","n","t","r","a","c","t">>,
              <<"i","n","t","e","r","v","i","e","w">>,
              <<"h","r">>,
              <<"c","l","i","e","n","t">>,
              <<"r","e","p","o","r","t">> >>

\* f"{from_addr}\n{subject}\n{body}".lower()
HeuristicText(f, s, b) == Lower(f \o <<"\n">> \o s \o <<"\n">> \o b)

\* the work keywords tested before the urgent ones
_heuristic_work_first(f, s, b) ==
    LET text == HeuristicText(f, s, b)
    IN  IF AnyIn(work_kw, text) THEN L_work
        ELSE IF AnyIn(urgent_kw, text) THEN L_urgent
        ELSE IF AnyIn(spam_kw, text) THEN L_spam
        ELSE L_personal

_heuristic(f, s, b) ==
    LET text == HeuristicText(f, s, b)
    IN  IF AnyIn(urgent_kw, text) THEN L_urgent
        ELSE IF AnyIn(spam_kw, text) THEN L_spam
        ELSE IF AnyIn(work_kw, text) THEN L_work
        ELSE L_personal

BodyLimit == 5000
TruncationMarker ==
    <<"\n",".",".",".","(","t","r","u","n","c","a","t","e","d",")",".",".",".">>

\* len(body) < 5000 in place of len(body) <= 5000
BodyIn_strict(b) == IF Len(b) < BodyLimit THEN b
                    ELSE SubSeq(b, 1, BodyLimit) \o TruncationMarker

\* body if len(body) <= 5000 else body[:5000] + "\n...(truncated)..."
BodyIn(b) == IF Len(b) <= BodyLimit THEN b
             ELSE SubSeq(b, 1, BodyLimit) \o TruncationMarker

\* os.getenv("OPENAI_API_KEY"): unset (None), set to the empty string, or set
KeyUnset == "<unset>"
KeyValues == {KeyUnset, "", "sk-test"}
KeyTruthy(k) == k # KeyUnset /\ k # ""

\* self._chain is not None and os.getenv("OPENAI_API_KEY")
RemoteAvailable(chain, key) == chain # None /\ KeyTruthy(key)

\* (out or "").lower(), the strip() forgotten
Normalize_no_strip(o) == Lower(IF o.kind = "none" THEN <<>> ELSE o.value)

\* (out or "").strip().lower()
Normalize(o) == Lower(Strip(IF o.kind = "none" THEN <<>> ELSE o.value))

NoLabel == <<>>
NoRequest == [sent |-> FALSE]
NoOut == [kind |-> "pending"]
Raise == [kind |-> "raise"]
Str(s) == [kind |-> "str", value |-> s]


----------------------------------------------------------------------------
(* Inputs of classify *)

ShortAlphabet == {"h", "R"}

RECURSIVE StringsUpTo(_)
StringsUpTo(n) ==
    IF n = 0 THEN {<<>>}
    ELSE LET shorter == StringsUpTo(n - 1)
         IN  shorter \cup {Append(w, c) : w \in shorter, c \in ShortAlphabet}

Pad(n) == [i \in 1..n |-> "x"]

Froms == { <<>>,
           <<"b","o","s","s","@","c","o",".","c","o","m">>,
           <<"H","R">> }

Tos == { <<>>,
         <<"u","r","g","e","n","t">> }

Subjects == { <<>>,
              <<"R","e",":"," ","d","e","a","d","l","i","n","e">>,
              <<"h">> }

Boss == <<"b","o","s","s","@","c","o",".","c","o","m">>
Me == <<"m","e","@","c","o",".","c","o","m">>
ReDeadline == <<"R","e",":"," ","d","e","a","d","l","i","n","e">>
SendTheReport == <<"p","l","e","a","s","e"," ","s","e","n","d"," ","t","h","e"," ","r","e","p","o","r","t">>
FreeMeeting == <<"f","r","e","e"," ","m","e","e","t","i","n","g">>
Deadline == <<"d","e","a","d","l","i","n","e">>

Phrases == { SendTheReport,
             FreeMeeting,
             Deadline,
             <<"m","e","e","t","i","n","g">>,
             <<"B","u","y"," ","N","o","w">>,
             <<"A","S","A","P">>,
             <<"s","e","e"," ","y","o","u"," ","a","t"," ","l","u","n","c","h">> }

ShortBodies == StringsUpTo(MaxLen) \cup Phrases

\* bodies of a length around the truncation limit that begin with a keyword,
\* and one whose only keyword lies behind the limit
LongBodies == {L_urgent \o Pad(n - Len(L_urgent)) :
                   n \in (BodyLimit - 1)..(BodyLimit + MaxOver)}
              \cup {Pad(BodyLimit) \o L_urgent}

Args(f, t, s, b) == [from_addr |-> f, to_addr |-> t, subject |-> s, body |-> b]

Inputs == {Args(f, t, s, b) : f \in Froms, t \in Tos, s \in Subjects, b \in ShortBodies}
          \cup {Args(Boss, Me, <<>>, b) : b \in LongBodies}
          \cup {Args(Boss, Me, ReDeadline, SendTheReport)}

\* what _chain.invoke can return: any string, or None
RemoteOuts == { Str(<<"w","o","r","k">>),
                Str(<<"p","e","r","s","o","n","a","l">>),
                Str(<<"s","p","a","m">>),
                Str(<<"u","r","g","e","n","t">>),
                Str(<<" ","W","o","r","k","\n">>),
                Str(<<"U","R","G","E","N","T">>),
                Str(<<"s","p","a","m",".">>),
                Str(<<"w","o","r","k"," ","p","e","r","s","o","n","a","l">>),
                Str(<<"j","u","n","k">>),
                Str(<<>>),
                [kind |-> "none"] }

----------------------------------------------------------------------------
(* classify, in the steps the remote call divides it into *)

\* MailCategorizer.__init__: the imports and the construction of the chain
\* either succeed, or raise and leave _chain = None
Construct(init_raises) == IF init_raises THEN None ELSE Chain

\* entry of classify up to the call of _chain.invoke, or, with the remote
\* path switched off, up to the call of _heuristic
Classify(a) ==
    /\ pc = "idle"
    /\ from_addr' = a.from_addr
    /\ to_addr' = a.to_addr
    /\ subject' = a.subject
    /\ body' = a.body
    /\ repeat' = (label # NoLabel /\ a = Args(from_addr, to_addr, subject, body))
    /\ heuristic_before' = IF /\ a.from_addr = from_addr
                              /\ a.subject = subject
                              /\ a.body = body
                           THEN heuristic_before ELSE NoLabel
    /\ out' = NoOut
    /\ label' = NoLabel
    /\ raised' = FALSE
    /\ heuristic_runs' = 0
    /\ IF RemoteAvailable(_chain, api_key)
       THEN /\ dispatched' = [sent |-> TRUE,
                              from_addr |-> a.from_addr,
                              to_addr |-> a.to_addr,
                              subject |-> a.subject,
                              body |-> BodyIn(a.body)]
            /\ invokes' = 1
            /\ pc' = "remote"
       ELSE /\ dispatched' = NoRequest
            /\ invokes' = 0
            /\ pc' = "heuristic"
    /\ UNCHANGED <<_chain, api_key, ext_vars, reply_vars>>

\* _chain.invoke returns o: normalise it and return it if it is a label
RemoteReturns(o) ==
    /\ pc = "remote"
    /\ out' = o
    /\ IF Normalize(o) \in ALLOWED
       THEN /\ label' = Normalize(o)
            /\ pc' = "done"
       ELSE /\ label' = label
            /\ pc' = "heuristic"
    /\ UNCHANGED <<_chain, from_addr, to_addr, subject, body, api_key,
                   dispatched, raised, invokes, heuristic_runs, repeat, heuristic_before, ext_vars, reply_vars>>

\* the call without its try/except: the exception leaves classify
RemoteRaises_propagates ==
    /\ pc = "remote"
    /\ out' = Raise
    /\ raised' = TRUE
    /\ pc' = "done"
    /\ UNCHANGED <<_chain, from_addr, to_addr, subject, body, api_key,
                   dispatched, label, invokes, heuristic_runs, repeat,
                   heuristic_before, ext_vars, reply_vars>>

\* a failed call tried again
RemoteRaises_retry ==
    /\ pc = "remote"
    /\ out' = Raise
    /\ invokes' = invokes + 1
    /\ pc' = IF invokes < 2 THEN "remote" ELSE "heuristic"
    /\ UNCHANGED <<_chain, from_addr, to_addr, subject, body, api_key,
                   dispatched, label, raised, heuristic_runs, repeat,
                   heuristic_before, ext_vars, reply_vars>>

\* _chain.invoke raises: except Exception: pass
RemoteRaises ==
    /\ pc = "remote"
    /\ out' = Raise
    /\ pc' = "heuristic"
    /\ UNCHANGED <<_chain, from_addr, to_addr, subject, body, api_key,
                   dispatched, label, raised, invokes, heuristic_runs, repeat,
                   heuristic_before, ext_vars, reply_vars>>

\* the heuristic run on the body as it was sent to the remote backend
Heuristic_on_body_in ==
    /\ pc = "heuristic"
    /\ label' = _heuristic(from_addr, subject, BodyIn(body))
    /\ heuristic_runs' = heuristic_runs + 1
    /\ pc' = "done"
    /\ UNCHANGED <<_chain, from_addr, to_addr, subject, body, api_key,
                   dispatched, out, raised, invokes, repeat, heuristic_before, ext_vars, reply_vars>>

\* the recipient address searched for keywords too
Heuristic_reads_to_addr ==
    /\ pc = "heuristic"
    /\ label' = _heuristic(from_addr \o <<"\n">> \o to_addr, subject, body)
    /\ heuristic_runs' = heuristic_runs + 1
    /\ pc' = "done"
    /\ UNCHANGED <<_chain, from_addr, to_addr, subject, body, api_key,
                   dispatched, out, raised, invokes, repeat, heuristic_before,
                   ext_vars, reply_vars>>

\* return self._heuristic(from_addr, subject, body)
Heuristic ==
    /\ pc = "heuristic"
    /\ label' = _heuristic(from_addr, subject, body)
    /\ heuristic_runs' = heuristic_runs + 1
    /\ pc' = "done"
    /\ UNCHANGED <<_chain, from_addr, to_addr, subject, body, api_key,
                   dispatched, out, raised, invokes, repeat, heuristic_before, ext_vars, reply_vars>>

\* classify has returned: its frame is gone, the caller holds the label
Return ==
    /\ pc = "done"
    /\ pc' = "idle"
    /\ dispatched' = NoRequest
    /\ out' = NoOut
    /\ invokes' = 0
    /\ heuristic_runs' = 0
    /\ repeat' = FALSE
    /\ heuristic_before' = IF heuristic_runs > 0 THEN label ELSE NoLabel
    /\ UNCHANGED <<_chain, from_addr, to_addr, subject, body, api_key, label,
                   raised, ext_vars, reply_vars>>

ExtIdle ==
    /\ payload = EmptyDict
    /\ ext_pc = "idle"
    /\ txt = <<>>
    /\ visits = 0

NoError == "None"

\* main before its first prompt, the locals of _reply_flow unset
FlowIdle ==
    /\ forced_to = <<>>
    /\ messages = <<>>
    /\ msg = EmptyDict
    /\ suggestions = << <<>>, <<>> >>
    /\ base = <<>>
    /\ reply_text = <<>>

ReplyIdle ==
    /\ mailbox = EmptyDict
    /\ main_pc = "menu"
    /\ FlowIdle
    /\ outbox = <<>>
    /\ error = NoError

InitCat ==
    /\ _chain \in {Construct(r) : r \in BOOLEAN}
    /\ pc = "idle"
    /\ from_addr = <<>>
    /\ to_addr = <<>>
    /\ subject = <<>>
    /\ body = <<>>
    /\ api_key \in KeyValues
    /\ dispatched = NoRequest
    /\ out = NoOut
    /\ label = NoLabel
    /\ raised = FALSE
    /\ invokes = 0
    /\ heuristic_runs = 0
    /\ repeat = FALSE
    /\ heuristic_before = NoLabel
    /\ ExtIdle
    /\ ReplyIdle

NextCat ==
    \/ \E a \in Inputs : Classify(a)
    \/ \E o \in RemoteOuts : RemoteReturns(o)
    \/ RemoteRaises
    \/ Heuristic
    \/ Return

SpecCat == InitCat /\ [][NextCat]_vars

----------------------------------------------------------------------------
(* Payload trees handed to extract_plain_text_from_payload *)

DataA == <<"Y","Q","=","=">>       \* "a"
DataB == <<"Y","g","=","=">>       \* "b"
DataC == <<"Y","w","=","=">>       \* "c"
DataHtml == <<"P","G","I","-">>    \* "<b>"
DataBad == <<"Y","Q">>             \* the padding is missing

PlainLeaf(d) == [mimeType |-> "text/plain", body |-> [data |-> d]]
PlainA == PlainLeaf(DataA)
PlainB == PlainLeaf(DataB)
PlainBad == PlainLeaf(DataBad)
PlainEmpty == PlainLeaf(<<>>)
Html == [mimeType |-> "text/html", body |-> [data |-> DataHtml]]

Leaves == {PlainA, PlainB, PlainBad, PlainEmpty, Html, EmptyDict}

\* a container before its parts are attached: a multipart, a multipart with
\* an empty body next to its parts, and text/plain nodes that have parts
Heads == { [mimeType |-> "multipart/alternative"],
           [mimeType |-> "multipart/mixed", body |-> [data |-> <<>>]],
           [mimeType |-> "text/plain"],
           [mimeType |-> "text/plain", body |-> [data |-> DataC]] }

WithParts(h, ps) ==
    [k \in DOMAIN h \cup {"parts"} |-> IF k = "parts" THEN ps ELSE h[k]]

Alternative(ps) == WithParts([mimeType |-> "multipart/alternative"], ps)
Mixed(ps) == WithParts([mimeType |-> "multipart/mixed"], ps)

SeqsUpTo(S, n) == UNION {[1..k -> S] : k \in 0..n}

Flat == {WithParts(h, ps) : h \in Heads, ps \in SeqsUpTo(Leaves, MaxParts)}

\* t one level further down, between earlier and later parts
Wrap(t, pre, post) == Mixed(pre \o <<t>> \o post)

RECURSIVE Wrapped(_)
Wrapped(n) ==
    IF n = 0 THEN Leaves \cup Flat
    ELSE LET inner == Wrapped(n - 1)
         IN  inner \cup {Wrap(t, pre, post) :
                            t \in inner,
                            pre \in {<<>>, <<Html>>},
                            post \in {<<>>, <<PlainB>>}}

DataAlphabet == {"Y", "Q", "=", "w"}

\* text/plain nodes that have parts next to a body whose data does not
\* decode, is the empty string, or is missing
PlainHeads == { PlainLeaf(DataBad),
                PlainLeaf(<<>>),
                [mimeType |-> "text/plain", body |-> EmptyDict] }

PlainWithParts == {WithParts(h, ps) : h \in PlainHeads,
                                      ps \in SeqsUpTo(Leaves, MaxParts)}

Payloads == Wrapped(MaxWrap)
            \cup {PlainLeaf(d) : d \in SeqsUpTo(DataAlphabet, MaxDataLen)}
            \cup PlainWithParts

\* a caller passes msg.get("payload", {}) to extract_plain_text_from_payload
Extract ==
    /\ ext_pc = "idle"
    /\ txt' = extract_plain_text_from_payload(payload)
    /\ visits' = Calls(payload)
    /\ ext_pc' = "done"
    /\ UNCHANGED <<payload, cat_vars, reply_vars>>

InitExt ==
    /\ payload \in Payloads
    /\ ext_pc = "idle"
    /\ txt = <<>>
    /\ visits = 0
    /\ _chain = None
    /\ pc = "idle"
    /\ from_addr = <<>>
    /\ to_addr = <<>>
    /\ subject = <<>>
    /\ body = <<>>
    /\ api_key = KeyUnset
    /\ dispatched = NoRequest
    /\ out = NoOut
    /\ label = NoLabel
    /\ raised = FALSE
    /\ invokes = 0
    /\ heuristic_runs = 0
    /\ repeat = FALSE
    /\ heuristic_before = NoLabel
    /\ ReplyIdle

NextExt == Extract

SpecExt == InitExt /\ [][NextExt]_vars

----------------------------------------------------------------------------
(* main and _reply_flow (main.py), GmailSender (sender.py) *)

NoneValue == [kind |-> "none"]

\* get_header: the value of the first header whose name matches, compared
\* in lower case; None when no header matches or the match has no value
get_header(headers, name) ==
    LET name_l == Lower(name)
        hits == {i \in 1..Len(headers) :
                    Lower(Get(headers[i], "name", <<>>)) = name_l}
    IN  IF hits = {} THEN NoneValue
        ELSE LET h == headers[CHOOSE i \in hits : \A j \in hits : i <= j]
             IN  IF "value" \in DOMAIN h THEN Str(h.value) ELSE NoneValue

StartsWith(s, prefix) ==
    /\ Len(s) >= Len(prefix)
    /\ \A i \in 1..Len(prefix) : s[i] = prefix[i]

DigitValue == [c \in {"0", "1", "2", "3", "4", "5", "6", "7", "8", "9"} |->
                  CASE c = "0" -> 0 [] c = "1" -> 1 [] c = "2" -> 2 [] c = "3" -> 3
                    [] c = "4" -> 4 [] c = "5" -> 5 [] c = "6" -> 6 [] c = "7" -> 7
                    [] c = "8" -> 8 [] c = "9" -> 9]

RECURSIVE DigitsValue(_)
DigitsValue(ds) ==
    IF ds = <<>> THEN 0
    ELSE 10 * DigitsValue(SubSeq(ds, 1, Len(ds) - 1)) + DigitValue[ds[Len(ds)]]

ValueError == [kind |-> "ValueError"]

\* int(s) for an optional sign followed by decimal digits; every other
\* string drawn here makes int raise ValueError
ParseInt(s) ==
    LET signed == s # <<>> /\ s[1] \in {"+", "-"}
        ds == IF signed THEN Tail(s) ELSE s
    IN  IF ds = <<>> \/ \E i \in 1..Len(ds) : ds[i] \notin DOMAIN DigitValue
        THEN ValueError
        ELSE [kind |-> "int",
              value |-> IF signed /\ s[1] = "-" THEN 0 - DigitsValue(ds)
                        ELSE DigitsValue(ds)]

FromName == <<"F","r","o","m">>
Carol == <<"c","@","y">>
Alice == <<"a","@","x">>

\* the header lists of the stored messages: From spelled as Gmail spells it,
\* From in lower case after another header, and no From at all
HeaderLists ==
    { << [name |-> FromName, value |-> Boss] >>,
      << [name |-> <<"T","o">>, value |-> Alice],
         [name |-> <<"f","r","o","m">>, value |-> Carol] >>,
      << [name |-> <<"T","o">>, value |-> Alice] >> }

MsgIds == {"m1", "m2"}

Mailboxes == [MsgIds -> {[payload |-> [headers |-> hs]] : hs \in HeaderLists}]

\* _fetch_full_messages: the stored message with its id set at the top level
FullMessage(box, mid) == [id |-> mid, payload |-> box[mid].payload]

\* what messages().list may answer: no message, or ids of the mailbox
IdLists == {ids \in SeqsUpTo(MsgIds, MaxMsgs) :
               \A i, j \in 1..Len(ids) : i # j => ids[i] # ids[j]}

\* what the user may type at the prompts
TypedChoices == {<<"1">>, <<" ","2">>, <<"3">>, <<"4">>, <<"9">>}
TypedAddresses == {<<>>, <<" ">>, Alice, <<" ">> \o Alice \o <<" ">>}
TypedWants == {<<>>, <<"n">>, <<" ","Y","e","s">>, <<"y">>}
TypedIndexes == {<<"x">>, <<>>, <<"0">>, <<"1">>, <<" ","2">>, <<"3">>, <<"-","1">>}
TypedPicks == {<<"1">>, <<"2">>, <<"3"," ">>, <<"4">>, <<>>}
TypedTexts == {<<>>, <<" ">>, <<"n","o"," ">>}
Ok1 == <<"o","k">>
Ok2 == <<"f","i","n","e">>
\* what suggest_two may give: two stripped strings, or an exception
Suggested == { [kind |-> "pair", s1 |-> s1, s2 |-> s2] :
                  s1 \in {<<>>, Ok1}, s2 \in {<<>>, Ok2} } \cup {Raise}

HttpOutcomes == {"ok", "HttpError"}

\* _reply_flow returns to the menu loop of main; its locals are gone
BackToMenu ==
    /\ main_pc' = "menu"
    /\ forced_to' = <<>>
    /\ messages' = <<>>
    /\ msg' = EmptyDict
    /\ suggestions' = << <<>>, <<>> >>
    /\ base' = <<>>
    /\ reply_text' = <<>>

\* _reply_flow up to its first prompt: no prompt without messages
EnterReplyFlow(msgs, to) ==
    IF msgs = <<>>
    THEN /\ BackToMenu
         /\ UNCHANGED <<outbox, error>>
    ELSE /\ main_pc' = "want"
         /\ messages' = msgs
         /\ forced_to' = to
         /\ UNCHANGED <<msg, suggestions, base, reply_text, outbox, error>>

\* option 1: fetch_last_n, then _reply_flow with forced_to=None
Option1(typed, ids) ==
    /\ main_pc = "menu"
    /\ Len(outbox) < MaxSent
    /\ Strip(typed) = <<"1">>
    /\ EnterReplyFlow([i \in 1..Len(ids) |-> FullMessage(mailbox, ids[i])], <<>>)
    /\ UNCHANGED <<mailbox, cat_vars, ext_vars>>

\* option 2: the address typed first filters the listing and is forced_to
Option2(typed, typed_addr, ids) ==
    /\ main_pc = "menu"
    /\ Len(outbox) < MaxSent
    /\ Strip(typed) = <<"2">>
    /\ LET email_addr == Strip(typed_addr)
       IN  IF email_addr = <<>>
           THEN UNCHANGED reply_vars
           ELSE /\ EnterReplyFlow([i \in 1..Len(ids) |-> FullMessage(mailbox, ids[i])],
                                  email_addr)
                /\ UNCHANGED mailbox
    /\ UNCHANGED <<cat_vars, ext_vars>>

\* option 3: GmailSender.send up to the send request
Option3(typed, typed_to) ==
    /\ main_pc = "menu"
    /\ Len(outbox) < MaxSent
    /\ Strip(typed) = <<"3">>
    /\ outbox' = Append(outbox, [kind |-> "send", to |-> Str(Strip(typed_to))])
    /\ main_pc' = "send"
    /\ UNCHANGED <<mailbox, forced_to, messages, msg, suggestions, base, reply_text,
                   error, cat_vars, ext_vars>>

\* GmailSender.send after the request: the id is printed, or the HttpError
SendReturns(outcome) ==
    /\ main_pc = "send"
    /\ outcome \in HttpOutcomes
    /\ BackToMenu
    /\ UNCHANGED <<mailbox, outbox, error, cat_vars, ext_vars>>

\* option 4 leaves the loop
Option4(typed) ==
    /\ main_pc = "menu"
    /\ Strip(typed) = <<"4">>
    /\ main_pc' = "exited"
    /\ UNCHANGED <<mailbox, forced_to, messages, msg, suggestions, base, reply_text,
                   outbox, error, cat_vars, ext_vars>>

\* any other choice prints a message and prompts again
InvalidChoice(typed) ==
    /\ main_pc = "menu"
    /\ Strip(typed) \notin {<<"1">>, <<"2">>, <<"3">>, <<"4">>}
    /\ UNCHANGED vars

\* "Reply to one of these emails now? (y/N)"
Want(typed) ==
    /\ main_pc = "want"
    /\ IF StartsWith(Lower(Strip(typed)), <<"y">>)
       THEN /\ main_pc' = "index"
            /\ UNCHANGED <<forced_to, messages, msg, suggestions, base, reply_text>>
       ELSE BackToMenu
    /\ UNCHANGED <<mailbox, outbox, error, cat_vars, ext_vars>>

\* "Which index do you want to reply to?", then suggest_two for the message
Index(typed, suggested) ==
    /\ main_pc = "index"
    /\ LET idx == ParseInt(Strip(typed))
       IN  IF idx = ValueError
           THEN BackToMenu
           ELSE IF idx.value < 1 \/ idx.value > Len(messages)
           THEN BackToMenu
           ELSE /\ msg' = messages[idx.value]
                /\ suggestions' = IF suggested = Raise THEN << <<>>, <<>> >>
                                  ELSE <<suggested.s1, suggested.s2>>
                /\ main_pc' = "pick"
                /\ UNCHANGED <<forced_to, messages, base, reply_text>>
    /\ UNCHANGED <<mailbox, outbox, error, cat_vars, ext_vars>>

\* "Your choice (1-4)" of _choose_reply_text
Pick(typed) ==
    /\ main_pc = "pick"
    /\ LET pick == Strip(typed)
           s1 == suggestions[1]
           s2 == suggestions[2]
       IN  IF pick = <<"1">> /\ s1 # <<>>
           THEN /\ base' = s1
                /\ main_pc' = "edit"
                /\ UNCHANGED <<forced_to, messages, msg, suggestions, reply_text>>
           ELSE IF pick = <<"2">> /\ s2 # <<>>
           THEN /\ base' = s2
                /\ main_pc' = "edit"
                /\ UNCHANGED <<forced_to, messages, msg, suggestions, reply_text>>
           ELSE IF pick = <<"3">>
           THEN /\ base' = <<>>
                /\ main_pc' = "manual"
                /\ UNCHANGED <<forced_to, messages, msg, suggestions, reply_text>>
           ELSE BackToMenu
    /\ UNCHANGED <<mailbox, outbox, error, cat_vars, ext_vars>>

\* sender.reply_to_address: GmailSender defines __init__, send and reply
\* only, so the attribute lookup raises AttributeError before any request
\* is made, and nothing in _reply_flow or main catches it
reply_to_address(text) ==
    /\ main_pc' = "crashed"
    /\ error' = "AttributeError"
    /\ reply_text' = text
    /\ UNCHANGED <<forced_to, messages, msg, suggestions, base, outbox>>

\* _reply_flow from the reply text on: the id is looked up and the reply is
\* handed to the sender
Dispatch(text) ==
    IF text = <<>>
    THEN BackToMenu /\ UNCHANGED <<outbox, error>>
    ELSE IF Get(msg, "id", "") = ""
    THEN BackToMenu /\ UNCHANGED <<outbox, error>>
    ELSE IF forced_to # <<>>
    THEN reply_to_address(text)
    ELSE /\ main_pc' = "reply_get"
         /\ reply_text' = text
         /\ UNCHANGED <<forced_to, messages, msg, suggestions, base, outbox, error>>

\* "Edit reply (or press Enter to keep)"
Edit(typed) ==
    /\ main_pc = "edit"
    /\ LET edited == RStrip(typed)
       IN  Dispatch(IF edited # <<>> THEN edited ELSE base)
    /\ UNCHANGED <<mailbox, cat_vars, ext_vars>>

\* "Type your reply"
Manual(typed) ==
    /\ main_pc = "manual"
    /\ Dispatch(RStrip(typed))
    /\ UNCHANGED <<mailbox, cat_vars, ext_vars>>

\* GmailSender.reply: the original comes back, or HttpError; the reply is
\* addressed to the original's From header and handed to the send endpoint
ReplyGet(outcome) ==
    /\ main_pc = "reply_get"
    /\ IF outcome = "HttpError"
       THEN BackToMenu /\ UNCHANGED outbox
       ELSE LET original == mailbox[msg.id]
                headers == Get(Get(original, "payload", EmptyDict), "headers", <<>>)
                frm == get_header(headers, FromName)
            IN  /\ outbox' = Append(outbox, [kind |-> "reply", to |-> frm,
                                             id |-> msg.id])
                /\ main_pc' = "reply_send"
                /\ UNCHANGED <<forced_to, messages, msg, suggestions, base, reply_text>>
    /\ UNCHANGED <<mailbox, error, cat_vars, ext_vars>>

\* GmailSender.reply after the send request: the id is printed, or the HttpError
ReplySend(outcome) ==
    /\ main_pc = "reply_send"
    /\ outcome \in HttpOutcomes
    /\ BackToMenu
    /\ UNCHANGED <<mailbox, outbox, error, cat_vars, ext_vars>>

CatIdle ==
    /\ _chain = None
    /\ pc = "idle"
    /\ from_addr = <<>>
    /\ to_addr = <<>>
    /\ subject = <<>>
    /\ body = <<>>
    /\ api_key = KeyUnset
    /\ dispatched = NoRequest
    /\ out = NoOut
    /\ label = NoLabel
    /\ raised = FALSE
    /\ invokes = 0
    /\ heuristic_runs = 0
    /\ repeat = FALSE
    /\ heuristic_before = NoLabel

InitReply ==
    /\ mailbox \in Mailboxes
    /\ main_pc = "menu"
    /\ FlowIdle
    /\ outbox = <<>>
    /\ error = NoError
    /\ CatIdle
    /\ ExtIdle

NextReply ==
    \/ \E typed \in TypedChoices, ids \in IdLists : Option1(typed, ids)
    \/ \E typed \in TypedChoices, a \in TypedAddresses, ids \in IdLists :
          Option2(typed, a, ids)
    \/ \E typed \in TypedChoices, a \in TypedAddresses : Option3(typed, a)
    \/ \E outcome \in HttpOutcomes : SendReturns(outcome)
    \/ \E typed \in TypedChoices : Option4(typed)
    \/ \E typed \in TypedChoices : InvalidChoice(typed)
    \/ \E typed \in TypedWants : Want(typed)
    \/ \E typed \in TypedIndexes, suggested \in Suggested : Index(typed, suggested)
    \/ \E typed \in TypedPicks : Pick(typed)
    \/ \E typed \in TypedTexts : Edit(typed)
    \/ \E typed \in TypedTexts : Manual(typed)
    \/ \E outcome \in HttpOutcomes : ReplyGet(outcome)
    \/ \E outcome \in HttpOutcomes : ReplySend(outcome)

SpecReply == InitReply /\ [][NextReply]_vars

----------------------------------------------------------------------------
(* Properties of classify *)

Returned == pc = "done"
AllEmpty == from_addr = <<>> /\ to_addr = <<>> /\ subject = <<>> /\ body = <<>>

\* C1: classify never raises and returns exactly one of the four labels,
\* whatever the inputs and whatever the remote backend does; with the remote
\* backend unavailable and all four inputs empty the label is personal.
C1_ClassifyTotal ==
    /\ ~raised
    /\ Returned => label \in {L_work, L_personal, L_spam, L_urgent}
    /\ (Returned /\ AllEmpty /\ ~RemoteAvailable(_chain, api_key))
           => label = L_personal

C1_Witness ==
    /\ Returned
    /\ AllEmpty
    /\ ~RemoteAvailable(_chain, api_key)
    /\ label = L_personal

\* the text the keywords are searched in
Searched == Lower(from_addr \o <<"\n">> \o subject \o <<"\n">> \o body)
HasUrgent == \E n \in 1..Len(urgent_kw) : Contains(urgent_kw[n], Searched)
HasSpam == \E n \in 1..Len(spam_kw) : Contains(spam_kw[n], Searched)
HasWork == \E n \in 1..Len(work_kw) : Contains(work_kw[n], Searched)
OnHeuristicPath == Returned /\ heuristic_runs = 1
BossExample ==
    /\ from_addr = Boss
    /\ to_addr = Me
    /\ subject = ReDeadline
    /\ body = SendTheReport

\* C2: on the heuristic path the label follows the strict priority
\* urgent > spam > work > personal over the lowercased newline-join of
\* fromAddr, subject and body; 'deadline' alone gives urgent, 'free' with
\* 'meeting' gives spam, and the boss@co.com example gives urgent.
C2_HeuristicPriority ==
    OnHeuristicPath =>
        /\ HasUrgent => label = L_urgent
        /\ (~HasUrgent /\ HasSpam) => label = L_spam
        /\ (~HasUrgent /\ ~HasSpam /\ HasWork) => label = L_work
        /\ (~HasUrgent /\ ~HasSpam /\ ~HasWork) => label = L_personal
        /\ (from_addr = <<>> /\ subject = <<>> /\ body = Deadline)
               => label = L_urgent
        /\ (from_addr = <<>> /\ subject = <<>> /\ body = FreeMeeting)
               => label = L_spam
        /\ BossExample => label = L_urgent

C2_Witness ==
    /\ OnHeuristicPath
    /\ BossExample
    /\ ~RemoteAvailable(_chain, api_key)
    /\ label = L_urgent

\* the whitespace-trimmed form of s, read off s without str.strip()
Trimmed(s) ==
    LET inked == {i \in 1..Len(s) : s[i] \notin {" ", "\n", "\t"}}
    IN  IF inked = {} THEN <<>>
        ELSE SubSeq(s, CHOOSE i \in inked : \A j \in inked : i <= j,
                       CHOOSE i \in inked : \A j \in inked : j <= i)

\* s is t up to the case of its letters
SameUpToCase(s, t) ==
    /\ Len(s) = Len(t)
    /\ \A i \in 1..Len(s) :
           \/ s[i] = t[i]
           \/ \E n \in 1..26 : s[i] = UpperAlpha[n] /\ t[i] = LowerAlpha[n]

\* the remote call returned a string whose trimmed, lowercased form is lab
Answered(lab) ==
    /\ out.kind = "str"
    /\ SameUpToCase(Trimmed(out.value), lab)

RemoteYieldedLabel == \E lab \in {L_work, L_personal, L_spam, L_urgent} : Answered(lab)

\* C3: when the remote backend is available and answers with a string whose
\* trimmed, lowercased form is one of the four labels, classify returns that
\* label, whatever the heuristic gives for the same inputs.
C3_RemoteLabelWins ==
    \A lab \in {L_work, L_personal, L_spam, L_urgent} :
        (Returned /\ Answered(lab)) => (label = lab /\ heuristic_runs = 0)

C3_Witness ==
    /\ Returned
    /\ out = Str(<<" ","W","o","r","k","\n">>)
    /\ label = L_work
    /\ HasUrgent

\* C4: whenever the remote path yields no allowed label (backend not
\* initialised, credential absent, the call raises, or the answer is no
\* label) classify returns the heuristic's label for the original,
\* untruncated (fromAddr, subject, body).
C4_HeuristicSubstitutes ==
    (Returned /\ ~RemoteYieldedLabel) =>
        /\ label = _heuristic(from_addr, subject, body)
        /\ HasUrgent => label = L_urgent

C4_Witness ==
    /\ Returned
    /\ out = Raise
    /\ Len(body) > BodyLimit
    /\ ~Contains(L_urgent, Lower(SubSeq(body, 1, BodyLimit)))
    /\ label = L_urgent

\* C5: the body dispatched to the remote backend is the body itself when it
\* has at most 5000 characters, and otherwise its first 5000 characters
\* followed by the truncation marker; from, to and subject go out whole.
C5_DispatchedBody ==
    dispatched.sent =>
        /\ dispatched.from_addr = from_addr
        /\ dispatched.to_addr = to_addr
        /\ dispatched.subject = subject
        /\ Len(body) <= 5000 => dispatched.body = body
        /\ Len(body) > 5000 =>
              /\ Len(dispatched.body) = 5000 + Len(TruncationMarker)
              /\ \A i \in 1..5000 : dispatched.body[i] = body[i]
              /\ \A i \in 1..Len(TruncationMarker) :
                     dispatched.body[5000 + i] = TruncationMarker[i]

C5_Witness ==
    /\ dispatched.sent
    /\ Len(body) > 5000
    /\ Len(dispatched.body) = 5000 + Len(TruncationMarker)

\* C10: within one classify invocation the remote backend is invoked at
\* most once, and only with the chain built and a credential present; the
\* heuristic runs at most once and only after the remote call was skipped or
\* ended without an allowed label; an invocation that repeats the arguments
\* of the one before it goes through the same steps, nothing is reused.
C10_RemotePolicy ==
    [][ /\ invokes' <= 1
        /\ heuristic_runs' <= 1
        /\ invokes' > invokes =>
              /\ pc = "idle"
              /\ _chain # None
              /\ api_key \notin {KeyUnset, ""}
        /\ heuristic_runs' > heuristic_runs =>
              \/ invokes = 0
              \/ out # NoOut /\ ~RemoteYieldedLabel
        /\ (pc # "done" /\ pc' = "done") =>
              /\ invokes' = IF RemoteAvailable(_chain, api_key) THEN 1 ELSE 0
              /\ heuristic_runs' = IF invokes' = 1 /\ RemoteYieldedLabel' THEN 0 ELSE 1
      ]_vars

C10_Witness ==
    /\ Returned
    /\ repeat
    /\ invokes = 1
    /\ out = Raise
    /\ heuristic_runs = 1

----------------------------------------------------------------------------
(* Properties of extract_plain_text_from_payload *)

Extracted == ext_pc = "done"

PartsOf(p) == IF "parts" \in DOMAIN p THEN p.parts ELSE <<>>
MimeOf(p) == IF "mimeType" \in DOMAIN p THEN p.mimeType ELSE ""
DataOf(p) == IF "body" \in DOMAIN p /\ "data" \in DOMAIN p.body
             THEN p.body.data ELSE <<>>
IsPlainNode(p) == MimeOf(p) = "text/plain"
IsLeafNode(p) == PartsOf(p) = <<>>

RECURSIVE PlainCount(_)
RECURSIVE PlainCountOf(_)
\* the text/plain nodes of the tree, at any depth
PlainCount(p) == (IF IsPlainNode(p) THEN 1 ELSE 0) + PlainCountOf(PartsOf(p))
PlainCountOf(ps) == IF ps = <<>> THEN 0
                    ELSE PlainCount(Head(ps)) + PlainCountOf(Tail(ps))

RECURSIVE PlainLeafData(_)
RECURSIVE PlainLeafDataOf(_)
\* the encoded data of the text/plain leaves, in document order
PlainLeafData(p) ==
    IF IsLeafNode(p) THEN (IF IsPlainNode(p) THEN <<DataOf(p)>> ELSE <<>>)
    ELSE PlainLeafDataOf(PartsOf(p))
PlainLeafDataOf(ps) == IF ps = <<>> THEN <<>>
                       ELSE PlainLeafData(Head(ps)) \o PlainLeafDataOf(Tail(ps))

RECURSIVE HtmlDepth(_)
\* the greatest depth at which the tree holds a text/html node with data, or -1
HtmlDepth(p) ==
    LET below == {HtmlDepth(PartsOf(p)[i]) : i \in 1..Len(PartsOf(p))}
        deepest == IF \A d \in below : d = -1 THEN -1
                   ELSE 1 + CHOOSE d \in below : \A e \in below : e <= d
    IN  IF deepest # -1 THEN deepest
        ELSE IF MimeOf(p) = "text/html" /\ DataOf(p) # <<>> THEN 0 ELSE -1

\* C6: for a payload with no text/plain node at any depth, the empty payload
\* included, extract returns the empty string.
C6_NoPlainTextGivesEmpty ==
    (Extracted /\ PlainCount(payload) = 0) => txt = <<>>

C6_Witness ==
    /\ Extracted
    /\ PlainCount(payload) = 0
    /\ HtmlDepth(payload) >= 2
    /\ txt = <<>>

\* C7: for a payload with exactly one text/plain node, a leaf at any depth,
\* extract returns the decoded content of that leaf, whatever else surrounds it.
C7_SinglePlainLeaf ==
    (Extracted /\ PlainCount(payload) = 1 /\ Len(PlainLeafData(payload)) = 1) =>
        LET d == PlainLeafData(payload)[1]
        IN  /\ txt = IF d = <<>> THEN <<>> ELSE _decode_body_data(d)
            /\ d = DataA => txt = <<97>>
            /\ d = <<"w","w","=","=">> => txt = <<Replacement>>

C7_Witness ==
    /\ Extracted
    /\ payload = Wrap(Wrap(Alternative(<<Html, PlainA>>), <<Html>>, <<>>),
                      <<Html>>, <<>>)
    /\ txt = <<97>>

\* the node answers from its own body and does not look at its parts
AnswersItself(p) == IsPlainNode(p) /\ DataOf(p) # <<>>

\* C8: a container returns the result of the first part, in the order of
\* parts, whose extraction is non-empty, and the empty string if there is
\* none; [HTML, plain] and [plain, HTML] give the same plain text, and of two
\* plain-text parts the earlier wins.
C8_FirstPartWins ==
    (Extracted /\ ~AnswersItself(payload)) =>
        LET ps == PartsOf(payload)
            hits == {i \in 1..Len(ps) :
                        extract_plain_text_from_payload(ps[i]) # <<>>}
        IN  /\ hits = {} => txt = <<>>
            /\ hits # {} =>
                  txt = extract_plain_text_from_payload(
                            ps[CHOOSE i \in hits : \A j \in hits : i <= j])
            /\ payload = Alternative(<<Html, PlainA>>) => txt = <<97>>
            /\ payload = Alternative(<<PlainA, Html>>) => txt = <<97>>
            /\ payload = Alternative(<<PlainA, PlainB>>) => txt = <<97>>
            /\ payload = Alternative(<<PlainB, PlainA>>) => txt = <<98>>

C8_Witness ==
    /\ Extracted
    /\ payload = Alternative(<<Html, PlainA>>)
    /\ txt = <<97>>

\* the decoder rejects the data: decoding it raises
Malformed(d) == d # <<>> /\ urlsafe_b64decode(d).raised
MalformedLeaf(p) == IsPlainNode(p) /\ IsLeafNode(p) /\ Malformed(DataOf(p))

RECURSIVE HasMalformedLeaf(_)
HasMalformedLeaf(p) ==
    \/ MalformedLeaf(p)
    \/ \E i \in 1..Len(PartsOf(p)) : HasMalformedLeaf(PartsOf(p)[i])

RECURSIVE Pruned(_)
\* the tree with every malformed text/plain leaf emptied
Pruned(p) ==
    IF MalformedLeaf(p) THEN EmptyDict
    ELSE IF IsLeafNode(p) THEN p
    ELSE [k \in DOMAIN p |->
             IF k = "parts" THEN [i \in 1..Len(p.parts) |-> Pruned(p.parts[i])]
             ELSE p[k]]

C11_BodyDataDecides ==
    (Extracted /\ IsPlainNode(payload)) =>
        LET d == DataOf(payload)
            ps == PartsOf(payload)
            hits == {i \in 1..Len(ps) :
                        extract_plain_text_from_payload(ps[i]) # <<>>}
        IN  /\ d # <<>> =>
                  /\ txt = _decode_body_data(d)
                  /\ visits = 1
                  /\ Malformed(d) => txt = <<>>
                  /\ d = DataC => txt = <<99>>
            /\ d = <<>> =>
                  /\ hits = {} => txt = <<>>
                  /\ hits # {} =>
                        txt = extract_plain_text_from_payload(
                                  ps[CHOOSE i \in hits : \A j \in hits : i <= j])
                  /\ ps = <<Html, PlainA>> => (txt = <<97>> /\ visits = 3)

C11_Witness ==
    /\ Extracted
    /\ payload = WithParts(PlainLeaf(DataBad), <<PlainA>>)
    /\ txt = <<>>
    /\ visits = 1

----------------------------------------------------------------------------
(* Properties of the reply flow *)

\* the From header of the stored message, as GmailSender.reply reads it
OriginalFrom(mid) == get_header(mailbox[mid].payload.headers, FromName)

\* _reply_flow has a reply text and a message id and has called the sender
SenderCalled == reply_text # <<>>

LastSent == outbox[Len(outbox)]

\* the replies of option 1 go to the From header of the message replied to
RepliesGoToOriginalFrom ==
    /\ \A i \in 1..Len(outbox) :
          outbox[i].kind = "reply" => outbox[i].to = OriginalFrom(outbox[i].id)
    /\ (SenderCalled /\ forced_to = <<>>) =>
          /\ main_pc \in {"reply_get", "reply_send"}
          /\ main_pc = "reply_send" =>
                (LastSent.kind = "reply" /\ LastSent.to = OriginalFrom(msg.id))

\* C12: in the flow of option 2, once an index, a reply text and the message
\* id are there, a reply is sent and forced_to is its only recipient; in the
\* flow of option 1 the reply goes to the From address of the original; no
\* path of the reply flow sends elsewhere or ends in an unhandled error.
C12_ReplyRecipients ==
    /\ error = NoError
    /\ (SenderCalled /\ forced_to # <<>>) =>
          /\ main_pc = "reply_send"
          /\ LastSent.kind = "reply"
          /\ LastSent.to = Str(forced_to)
    /\ (SenderCalled /\ forced_to = <<>>) =>
          /\ main_pc \in {"reply_get", "reply_send"}
          /\ main_pc = "reply_send" =>
                (LastSent.kind = "reply" /\ LastSent.to = OriginalFrom(msg.id))

\* option 2 with the address a@x, the message m1, suggestion 1 kept as it is
C12_Witness ==
    /\ main_pc = "crashed"
    /\ error = "AttributeError"
    /\ forced_to = Alice
    /\ msg = FullMessage(mailbox, "m1")
    /\ reply_text = Ok1
    /\ outbox = <<>>

----------------------------------------------------------------------------
(* The recipient address and the heuristic *)

\* C13: on the heuristic path the label does not depend on to_addr: an
\* invocation that has the from_addr, subject and body of the one before it,
\* with the same or another to_addr, returns the label the one before it
\* returned, both labels made by _heuristic.
C13_ToAddrIndependent ==
    (Returned /\ OnHeuristicPath /\ heuristic_before # NoLabel) =>
        label = heuristic_before

\* the same mail classified for another recipient, the word urgent in the
\* one recipient address only
C13_Witness ==
    /\ Returned
    /\ OnHeuristicPath
    /\ heuristic_before = L_personal
    /\ label = L_personal
    /\ ~repeat
    /\ to_addr = L_urgent

============================================================================
